---------------------------- MODULE Spec2Model ----------------------------
(***************************************************************************)
(* A model of scripts/audio_rename_and_assign.py: the file-name parser and *)
(* builder, the rename planner, the two-phase rename, the spot classifier, *)
(* the assignment planners, the playlist update and the control flow of    *)
(* main().                                                                 *)
(*                                                                         *)
(* Text.  TLC's strings cannot be indexed, so a Python str is modelled as  *)
(* a sequence of characters, each character written as a one-element       *)
(* string: an ASCII character stands for itself, any other character is    *)
(* written "uXXXX" with XXXX its Unicode code point.  The characters used: *)
(*   u3046=う u3048=え u304D=き u3050=ぐ u3053=こ u3055=さ u3058=じ u305A=ず  *)
(*   u3068=と u3069=ど u3072=ひ u3083=ゃ u308A=り u3093=ん u3099=(combining   *)
(*   dakuten) u30A2=ア u30A4=イ u30AB=カ u30AD=キ u30B0=グ u30B5=サ u30B9=ス  *)
(*   u30BD=ソ u30C3=ッ u30C7=デ u30C8=ト u30C9=ド u30D5=フ u30DB=ホ u30DC=ボ  *)
(*   u30EA=リ u30EB=ル u30EF=ワ u30F3=ン u30FC=ー u585A=塚 u5DDD=川 u5E06=帆  *)
(*   u5E30=帰 u6249=扉 u66F3=曳 u6728=木 u672C=本 u677F=板 u67AF=枯 u69FD=槽  *)
(*   u6A5F=機 u6BB5=段 u6C34=水 u6C60=池 u6E2F=港 u6EDD=滝 u7403=球 u7434=琴  *)
(*   u7802=砂 u7BB1=箱 u81EA=自 u8239=船 u8449=葉 u85AE=薮 u866B=虫 u884C=行  *)
(*   u8CA9=販 u8DB3=足 u8DEF=路 u8ECA=車 u91CE=野 u9234=鈴 u9244=鉄 u9396=鎖  *)
(*   u9418=鐘 u968E=階 u97F3=音 u98A8=風 u98DB=飛 u9AD8=高 u9CE5=鳥           *)
(*   uFF3F=＿ (full-width underscore)                                       *)
(* Spot titles are only ever compared for equality by the program, so a    *)
(* title is written as one TLA+ string (a transliteration).                *)
(***************************************************************************)
EXTENDS Integers, Sequences, FiniteSets, TLC

\* Python's None.  TLC compares only values of one kind, so None is written
\* in the kind of the value it stands in for: NoneStr where a str is
\* expected ("None" is not a character, so no str equals it), NoneParsed
\* where a ParsedAudioName is expected, None where a title is expected.
None == "None"

NoneStr == <<"None">>

NoneParsed == [source_kind |-> "None"]

(***************************************************************************)
(* Characters and str primitives                                           *)
(***************************************************************************)

\* The characters of the model in code point order (Python compares str by
\* code point; sorted() in plan_renames and plan_spots_additions uses it).
CharOrder ==
    << " ", "(", ")", ".", "/", "0", "1", "2", "3",
       "4", "5", "6", "7", "8", "9", ":", "A", "C",
       "D", "M", "P", "S", "T", "U", "V", "W",
       "_", "a", "d", "e", "h", "i", "k", "m",
       "n", "o", "p", "r", "s", "t", "u", "w",
       "x", "z", "u3046", "u3048", "u304D", "u3050", "u3053", "u3055",
       "u3058", "u305A", "u3068", "u3069", "u3072", "u3083", "u308A", "u3093",
       "u3099", "u30A2", "u30A4", "u30AB", "u30AD", "u30B0", "u30B5", "u30B9",
       "u30BD", "u30C3", "u30C7", "u30C8", "u30C9", "u30D5", "u30DB", "u30DC",
       "u30EA", "u30EB", "u30EF", "u30F3", "u30FC", "u585A", "u5DDD", "u5E06",
       "u5E30", "u6249", "u66F3", "u6728", "u672C", "u677F", "u67AF", "u69FD",
       "u6A5F", "u6BB5", "u6C34", "u6C60", "u6E2F", "u6EDD", "u7403", "u7434",
       "u7802", "u7BB1", "u81EA", "u8239", "u8449", "u85AE", "u866B", "u884C",
       "u8CA9", "u8DB3", "u8DEF", "u8ECA", "u91CE", "u9234", "u9244", "u9396",
       "u9418", "u968E", "u97F3", "u98A8", "u98DB", "u9AD8", "u9CE5", "uFF3F" >>

Ord(c) == CHOOSE i \in DOMAIN CharOrder : CharOrder[i] = c

\* s < t for two str, as Python orders them: by the first character in
\* which they differ, and a proper prefix comes first.
StrLess(s, t) ==
    LET n    == IF Len(s) < Len(t) THEN Len(s) ELSE Len(t)
        diff == {i \in 1..n : s[i] # t[i]}
    IN  IF diff = {} THEN Len(s) < Len(t)
        ELSE LET k == CHOOSE i \in diff : \A j \in diff : i <= j
             IN  Ord(s[k]) < Ord(t[k])

\* sorted(names): the names of a finite set in increasing order.
RECURSIVE Sorted(_)
Sorted(S) ==
    IF S = {} THEN <<>>
    ELSE LET least == CHOOSE x \in S : \A y \in S \ {x} : StrLess(x, y)
         IN  <<least>> \o Sorted(S \ {least})

IsDigit(c) == c \in {"0", "1", "2", "3", "4", "5", "6", "7", "8", "9"}

AllDigits(s) == \A i \in DOMAIN s : IsDigit(s[i])

Drop(s, n) == SubSeq(s, n + 1, Len(s))

Take(s, n) == SubSeq(s, 1, n)

StartsWith(s, p) == Len(p) <= Len(s) /\ SubSeq(s, 1, Len(p)) = p

\* c.lower() for one character: only the ASCII capitals have a lower case
\* among the characters of the model.
Lower(c) ==
    CASE c = "A" -> "a" [] c = "C" -> "c" [] c = "D" -> "d" [] c = "M" -> "m"
      [] c = "P" -> "p" [] c = "S" -> "s" [] c = "T" -> "t" [] c = "U" -> "u"
      [] c = "V" -> "v" [] c = "W" -> "w" [] OTHER -> c

LowerStr(s) == [i \in DOMAIN s |-> Lower(s[i])]

\* k in d, for str.
Contains(d, k) ==
    \/ k = <<>>
    \/ \E i \in 1..(Len(d) - Len(k) + 1) :
          d[i] = k[1] /\ SubSeq(d, i, i + Len(k) - 1) = k

\* s.replace(pat, rep) for a non-empty pat: the occurrences of pat, left to
\* right, not overlapping.
RECURSIVE ReplaceFrom(_, _, _)
ReplaceFrom(s, pat, rep) ==
    IF s = <<>> THEN <<>>
    ELSE IF StartsWith(s, pat) THEN rep \o ReplaceFrom(Drop(s, Len(pat)), pat, rep)
    ELSE <<Head(s)>> \o ReplaceFrom(Tail(s), pat, rep)

Replace(s, pat, rep) == IF Contains(s, pat) THEN ReplaceFrom(s, pat, rep) ELSE s

\* re.sub(c+, c, s): each run of the character c becomes one c.
RECURSIVE CollapseFrom(_, _)
CollapseFrom(s, c) ==
    IF Len(s) < 2 THEN s
    ELSE IF s[1] = c /\ s[2] = c THEN CollapseFrom(Tail(s), c)
    ELSE <<Head(s)>> \o CollapseFrom(Tail(s), c)

CollapseRuns(s, c) == IF Contains(s, <<c, c>>) THEN CollapseFrom(s, c) ELSE s

RECURSIVE LStrip(_, _)
LStrip(s, c) == IF s # <<>> /\ Head(s) = c THEN LStrip(Tail(s), c) ELSE s

RECURSIVE RStrip(_, _)
RStrip(s, c) ==
    IF s # <<>> /\ s[Len(s)] = c THEN RStrip(Take(s, Len(s) - 1), c) ELSE s

\* s.strip(c)
Strip(s, c) == RStrip(LStrip(s, c), c)

\* sep.join(parts)
RECURSIVE Join(_, _)
Join(parts, sep) ==
    IF parts = <<>> THEN <<>>
    ELSE IF Len(parts) = 1 THEN parts[1]
    ELSE parts[1] \o sep \o Join(Tail(parts), sep)

\* str(n) for a natural number n.
RECURSIVE IntToStr(_)
IntToStr(n) ==
    LET digit == <<"0", "1", "2", "3", "4", "5", "6", "7", "8", "9">>
    IN  IF n < 10 THEN <<digit[n + 1]>>
        ELSE IntToStr(n \div 10) \o <<digit[(n % 10) + 1]>>

\* s.zfill(width) for a str of digits.
RECURSIVE ZFill(_, _)
ZFill(s, width) == IF Len(s) >= width THEN s ELSE ZFill(<<"0">> \o s, width)

\* PurePath.suffix and PurePath.stem of a file name: the last dot splits the
\* name unless it is the first or the last character.
LastDot(name) ==
    IF \E i \in DOMAIN name : name[i] = "."
    THEN CHOOSE i \in DOMAIN name :
             name[i] = "." /\ \A j \in DOMAIN name : j > i => name[j] # "."
    ELSE 0

Suffix(name) ==
    LET i == LastDot(name)
    IN  IF 1 < i /\ i < Len(name) THEN SubSeq(name, i, Len(name)) ELSE <<>>

Stem(name) ==
    LET i == LastDot(name)
    IN  IF 1 < i /\ i < Len(name) THEN Take(name, i - 1) ELSE name

DotMp3 == <<".", "m", "p", "3">>


(***************************************************************************)
(* Normalizer                                                              *)
(***************************************************************************)

\* unicodedata.normalize("NFC", text).  Among the characters of the model
\* the only combining character is the dakuten u3099; the compositions that
\* stay among the characters of the model are と (u3068), ト (u30C8) and
\* ホ (u30DB) into ど, ド and ボ.  Every other character is already composed.
RECURSIVE Compose(_)
Compose(text) ==
    LET base     == <<"u3068", "u30C8", "u30DB">>
        composed == <<"u3069", "u30C9", "u30DC">>
    IN  IF Len(text) < 2 THEN text
        ELSE IF text[2] = "u3099" /\ \E i \in DOMAIN base : base[i] = text[1]
        THEN Compose(<<composed[CHOOSE i \in DOMAIN base : base[i] = text[1]]>>
                     \o Drop(text, 2))
        ELSE <<Head(text)>> \o Compose(Tail(text))

nfc(text) == IF Contains(text, <<"u3099">>) THEN Compose(text) ELSE text

clean_separators(text) ==
    LET t1 == nfc(text)
        t2 == Replace(t1, <<"uFF3F">>, <<"_">>)
        t3 == Replace(t2, <<" ">>, <<>>)
        t4 == CollapseRuns(t3, ".")
        t5 == Replace(t4, <<".", ".">>, <<".">>)
        t6 == Replace(t5, <<".">>, <<>>)
        t7 == CollapseRuns(t6, "_")
    IN  Strip(t7, "_")

\* (?i)mp3 matches at the start of text.
Mp3At(text) ==
    /\ Len(text) >= 3
    /\ text[1] \in {"m", "M"} /\ text[2] \in {"p", "P"} /\ text[3] = "3"

RECURSIVE StripMp3From(_)
StripMp3From(text) ==
    IF text = <<>> THEN <<>>
    ELSE IF Mp3At(text) THEN StripMp3From(Drop(text, 3))
    ELSE <<Head(text)>> \o StripMp3From(Tail(text))

\* re.sub(r"(?i)mp3", "", text)
strip_mp3_token(text) ==
    IF \E i \in DOMAIN text : text[i] = "3" /\ i >= 3 /\ Mp3At(SubSeq(text, i - 2, i))
    THEN StripMp3From(text)
    ELSE text

(***************************************************************************)
(* Filename grammar parser                                                 *)
(***************************************************************************)

UnknownContent ==
    <<"U", "n", "k", "n", "o", "w", "n", "C", "o", "n", "t", "e", "n", "t">>

\* "rest if rest else 'UnknownContent'"
OrUnknownContent(rest) == IF rest # <<>> THEN rest ELSE UnknownContent

\* "if rest.startswith('_'): rest = rest[1:]"
WithoutLeadingUnderscore(rest) ==
    IF StartsWith(rest, <<"_">>) THEN Tail(rest) ELSE rest

\* The length of the longest prefix of s made of characters satisfying
\* neither "is a digit" (when noDigit) nor "is an underscore".
RECURSIVE RunLen(_, _)
RunLen(s, noDigit) ==
    IF s = <<>> \/ Head(s) = "_" \/ (noDigit /\ IsDigit(Head(s))) THEN 0
    ELSE 1 + RunLen(Tail(s), noDigit)

\* re.match(r"^([^0-9_]+)", stem).group(1), or None.
SpeakerPrefix(stem) ==
    LET n == RunLen(stem, TRUE)
    IN  IF n = 0 THEN NoneStr ELSE Take(stem, n)

\* ^(?P<speaker>[^0-9_]+)(?P<date>\d{8})_(?P<time>\d{6})(?P<rest>.*)$
\* The date starts with a digit and the speaker holds none, so the speaker
\* is the whole leading run of non-digit, non-underscore characters.
parse_tsukamoto_style(stem) ==
    LET n == RunLen(stem, TRUE)
        matches == /\ n >= 1
                   /\ Len(stem) >= n + 15
                   /\ AllDigits(SubSeq(stem, n + 1, n + 8))
                   /\ stem[n + 9] = "_"
                   /\ AllDigits(SubSeq(stem, n + 10, n + 15))
        rest0 == Drop(stem, n + 15)
        rest1 == clean_separators(strip_mp3_token(rest0))
        rest2 == Replace(rest1, <<"(", "1", ")">>, <<"t", "a", "k", "e", "1", "_">>)
        rest3 == Replace(rest2, <<"(", "2", ")">>, <<"t", "a", "k", "e", "2", "_">>)
        rest4 == Replace(rest3, <<"(", "3", ")">>, <<"t", "a", "k", "e", "3", "_">>)
        rest5 == clean_separators(rest4)
    IN  IF ~matches THEN NoneParsed
        ELSE [speaker       |-> Take(stem, n),
              date_yyyymmdd |-> SubSeq(stem, n + 1, n + 8),
              time_hhmmss   |-> SubSeq(stem, n + 10, n + 15),
              descriptor    |-> OrUnknownContent(rest5),
              source_kind   |-> "B",
              keep_id       |-> NoneStr]

\* ^(?P<speaker>[^_]+)_WAV_(?P<id1>\d{4})_(?P<id2>\d{3})(?P<rest>.*)$
\* The speaker holds no underscore and is followed by one, so it is the
\* whole leading run of non-underscore characters.
parse_suzuki_style(stem, unknown_date, keep_id) ==
    LET n == RunLen(stem, FALSE)
        matches == /\ n >= 1
                   /\ Len(stem) >= n + 13
                   /\ SubSeq(stem, n + 1, n + 5) = <<"_", "W", "A", "V", "_">>
                   /\ AllDigits(SubSeq(stem, n + 6, n + 9))
                   /\ stem[n + 10] = "_"
                   /\ AllDigits(SubSeq(stem, n + 11, n + 13))
        id1   == SubSeq(stem, n + 6, n + 9)
        id2   == SubSeq(stem, n + 11, n + 13)
        rest0 == Drop(stem, n + 13)
        rest1 == clean_separators(strip_mp3_token(rest0))
        rest2 == WithoutLeadingUnderscore(rest1)
    IN  IF ~matches THEN NoneParsed
        ELSE [speaker       |-> Take(stem, n),
              date_yyyymmdd |-> unknown_date,
              time_hhmmss   |-> NoneStr,
              descriptor    |-> OrUnknownContent(rest2),
              source_kind   |-> "A",
              keep_id       |-> IF keep_id
                                THEN <<"W", "A", "V">> \o ZFill(id1, 4)
                                     \o <<"_">> \o ZFill(id2, 3)
                                ELSE NoneStr]

\* "if parsed_b: return parsed_b", "if parsed_a: return parsed_a",
\* "return None"
FirstParsed(parsed_b, parsed_a) ==
    IF parsed_b # NoneParsed THEN parsed_b ELSE parsed_a

\* parse_audio_name from "parsed_b = ..." on.
ParseStem(stem, unknown_date, keep_suzuki_id) ==
    FirstParsed(parse_tsukamoto_style(stem),
                parse_suzuki_style(stem, unknown_date, keep_suzuki_id))

parse_audio_name(filename, unknown_date, keep_suzuki_id) ==
    IF LowerStr(Suffix(filename)) # DotMp3 THEN NoneParsed
    ELSE ParseStem(nfc(Stem(filename)), unknown_date, keep_suzuki_id)

(***************************************************************************)
(* Filename builder                                                        *)
(***************************************************************************)

\* NAME_ROMAJI.get(speaker, speaker): 鈴木 -> Suzuki, 塚本 -> Tsukamoto,
\* 高野 -> Takano.
NAME_ROMAJI(speaker) ==
    IF speaker = <<"u9234", "u6728">> THEN <<"S", "u", "z", "u", "k", "i">>
    ELSE IF speaker = <<"u585A", "u672C">>
    THEN <<"T", "s", "u", "k", "a", "m", "o", "t", "o">>
    ELSE IF speaker = <<"u9AD8", "u91CE">> THEN <<"T", "a", "k", "a", "n", "o">>
    ELSE speaker

\* "if parsed.time_hhmmss:" and "if parsed.keep_id:": None and "" are false.
Truthy(x) == x # NoneStr /\ x # <<>>

\* "if not joined: joined = ..."
OrDefault(joined, default) == IF joined # <<>> THEN joined ELSE default

build_new_filename(parsed, romanize_names) ==
    LET speaker == IF romanize_names THEN NAME_ROMAJI(parsed.speaker)
                   ELSE parsed.speaker
        parts == <<speaker, parsed.date_yyyymmdd>>
                 \o (IF Truthy(parsed.time_hhmmss) THEN <<parsed.time_hhmmss>>
                     ELSE <<>>)
                 \o (IF Truthy(parsed.keep_id) THEN <<parsed.keep_id>> ELSE <<>>)
                 \o <<parsed.descriptor>>
        joined == clean_separators(Join(parts, <<"_">>))
        named  == OrDefault(joined, speaker \o <<"_">> \o parsed.date_yyyymmdd
                                    \o <<"_">> \o UnknownContent)
    IN  named \o DotMp3

(***************************************************************************)
(* Spot classifier                                                         *)
(***************************************************************************)

\* The ordered keyword table, in the order of the source.  The titles:
\*   RinrinPortTsuchiura    りんりんポート土浦
\*   ShiawaseNoKane         幸せの鐘
\*   Suisha                 水車
\*   Fuusha                 風車
\*   TamokutekiHiroba       多目的広場
\*   SuigouNoTaki           水郷の滝
\*   ZeppelinGou            ツェッペリン号
\*   RestHouse              レストハウス
\*   Sanpomichi             散歩道
\*   JoggingCourse          ジョギングコース
\*   Mori1                  森1
\* The keywords, in order: 帆曳船, white iris, ホワイトアイリス, 帰港, 鐘, 水車,
\* 風車, 野球, サッカー, ソフトボール, 滝, ひこうき, 飛行機, 水路, 板, デッキ, じゃり,
\* 自販機, 扉, 箱, 鉄琴, 鎖, 水槽, 階段, 砂, 足音, 枯葉, ドングリ, どんぐり, 鳥,
\* さえずり, 薮, 虫, 木, 水, 池, 川.
KEYWORD_TO_SPOT_TITLE ==
    <<
       <<<<"u5E06", "u66F3", "u8239">>, "RinrinPortTsuchiura">>,
       <<<<"w", "h", "i", "t", "e", " ", "i", "r", "i", "s">>, "RinrinPortTsuchiura">>,
       <<<<"u30DB", "u30EF", "u30A4", "u30C8", "u30A2", "u30A4", "u30EA", "u30B9">>, "RinrinPortTsuchiura">>,
       <<<<"u5E30", "u6E2F">>, "RinrinPortTsuchiura">>,
       <<<<"u9418">>, "ShiawaseNoKane">>,
       <<<<"u6C34", "u8ECA">>, "Suisha">>,
       <<<<"u98A8", "u8ECA">>, "Fuusha">>,
       <<<<"u91CE", "u7403">>, "TamokutekiHiroba">>,
       <<<<"u30B5", "u30C3", "u30AB", "u30FC">>, "TamokutekiHiroba">>,
       <<<<"u30BD", "u30D5", "u30C8", "u30DC", "u30FC", "u30EB">>, "TamokutekiHiroba">>,
       <<<<"u6EDD">>, "SuigouNoTaki">>,
       <<<<"u3072", "u3053", "u3046", "u304D">>, "ZeppelinGou">>,
       <<<<"u98DB", "u884C", "u6A5F">>, "ZeppelinGou">>,
       <<<<"u6C34", "u8DEF">>, "Fuusha">>,
       <<<<"u677F">>, "Fuusha">>,
       <<<<"u30C7", "u30C3", "u30AD">>, "RestHouse">>,
       <<<<"u3058", "u3083", "u308A">>, "RestHouse">>,
       <<<<"u81EA", "u8CA9", "u6A5F">>, "RestHouse">>,
       <<<<"u6249">>, "RestHouse">>,
       <<<<"u7BB1">>, "RestHouse">>,
       <<<<"u9244", "u7434">>, "RestHouse">>,
       <<<<"u9396">>, "RestHouse">>,
       <<<<"u6C34", "u69FD">>, "RestHouse">>,
       <<<<"u968E", "u6BB5">>, "Fuusha">>,
       <<<<"u7802">>, "Sanpomichi">>,
       <<<<"u8DB3", "u97F3">>, "JoggingCourse">>,
       <<<<"u67AF", "u8449">>, "JoggingCourse">>,
       <<<<"u30C9", "u30F3", "u30B0", "u30EA">>, "JoggingCourse">>,
       <<<<"u3069", "u3093", "u3050", "u308A">>, "JoggingCourse">>,
       <<<<"u9CE5">>, "Mori1">>,
       <<<<"u3055", "u3048", "u305A", "u308A">>, "Mori1">>,
       <<<<"u85AE">>, "Mori1">>,
       <<<<"u866B">>, "Mori1">>,
       <<<<"u6728">>, "Mori1">>,
       <<<<"u6C34">>, "SuigouNoTaki">>,
       <<<<"u6C60">>, "SuigouNoTaki">>,
       <<<<"u5DDD">>, "SuigouNoTaki">>
    >>

\* The title of the first row of the table, from row i on, whose keyword,
\* in lower case, is in d; d is the descriptor in lower case.
RECURSIVE FirstMatch(_, _)
FirstMatch(d, i) ==
    IF i > Len(KEYWORD_TO_SPOT_TITLE) THEN None
    ELSE IF Contains(d, LowerStr(KEYWORD_TO_SPOT_TITLE[i][1]))
    THEN KEYWORD_TO_SPOT_TITLE[i][2]
    ELSE FirstMatch(d, i + 1)

\* The title of the last row of the table, from row i down, whose keyword is
\* in d.
RECURSIVE LastMatch(_, _)
LastMatch(d, i) ==
    IF i < 1 THEN None
    ELSE IF Contains(d, LowerStr(KEYWORD_TO_SPOT_TITLE[i][1]))
    THEN KEYWORD_TO_SPOT_TITLE[i][2]
    ELSE LastMatch(d, i - 1)

\* The classifier with the table scanned from its end: the later of two
\* keywords then decides, which C7 excludes.
GuessLastMatch(descriptor) ==
    LastMatch(LowerStr(nfc(descriptor)), Len(KEYWORD_TO_SPOT_TITLE))

guess_spot_title(descriptor) == FirstMatch(LowerStr(nfc(descriptor)), 1)

(***************************************************************************)
(* Rename planner                                                          *)
(*                                                                         *)
(* A directory is a function from the names of its entries to the files    *)
(* they name; every entry is a regular file.  A configuration cfg holds    *)
(* targets, romanize_names, unknown_date and keep_suzuki_id.               *)
(***************************************************************************)

\* The first loop of plan_renames for one directory entry: the item
\* (src, computed destination) as a one-element list, or the empty list
\* when the entry is skipped.  PlanEntryFor is the part after the test of
\* the suffix, with the speaker prefix and the parse of the name.
PlanEntryFor(name, speaker_prefix, parsed, cfg) ==
    IF speaker_prefix = NoneStr THEN <<>>
    ELSE IF speaker_prefix \notin cfg.targets THEN <<>>
    ELSE IF parsed = NoneParsed THEN <<>>
    ELSE <<[src |-> name,
            dst |-> build_new_filename(parsed, cfg.romanize_names)]>>

PlanEntry(name, cfg) ==
    IF LowerStr(Suffix(name)) # DotMp3 THEN <<>>
    ELSE PlanEntryFor(name, SpeakerPrefix(nfc(Stem(name))),
                      parse_audio_name(name, cfg.unknown_date,
                                       cfg.keep_suzuki_id),
                      cfg)

RECURSIVE PlanEntries(_, _)
PlanEntries(entries, cfg) ==
    IF entries = <<>> THEN <<>>
    ELSE PlanEntry(Head(entries), cfg) \o PlanEntries(Tail(entries), cfg)

\* The loop condition without "dst.exists()": a plan made with it may name a
\* destination that is occupied, which C1 excludes.
CollidesUsedOnly(dst, existing, used) == dst \in used

\* The loop condition without "dst in used": a plan made with it may name one
\* destination twice, which C2 excludes.
CollidesExistingOnly(dst, existing, used) == dst \in existing

\* The loop condition "dst.exists() or dst in used".
Collides(dst, existing, used) == dst \in existing \/ dst \in used

\* The while loop of the collision resolution: the first of dst,
\* base_dup1.suffix, base_dup2.suffix, ... that does not collide.
RECURSIVE FreeName(_, _, _, _, _, _)
FreeName(dst, base, suffix, i, existing, used) ==
    IF Collides(dst, existing, used)
    THEN FreeName(base \o <<"_", "d", "u", "p">> \o IntToStr(i) \o suffix,
                  base, suffix, i + 1, existing, used)
    ELSE dst

RECURSIVE ResolveCollisions(_, _, _)
ResolveCollisions(items, existing, used) ==
    IF items = <<>> THEN <<>>
    ELSE LET item == Head(items)
             dst  == FreeName(item.dst, Stem(item.dst), Suffix(item.dst), 1,
                              existing, used)
         IN  <<[src |-> item.src, dst |-> dst]>>
             \o ResolveCollisions(Tail(items), existing, used \cup {dst})

\* "it.src.name != it.dst.name"
IsRename(it) == it.src # it.dst

plan_renames(dir, cfg) ==
    LET items    == PlanEntries(Sorted(DOMAIN dir), cfg)
        resolved == ResolveCollisions(items, DOMAIN dir, {})
    IN  SelectSeq(resolved, IsRename)

(***************************************************************************)
(* Assignment planner                                                      *)
(*                                                                         *)
(* A location record is [title, playlist, note]: note stands for the       *)
(* fields the program does not know, and playlist is [kind, tracks] with   *)
(* kind "absent" (no such key), "null" (JSON null) or "list".  A track is  *)
(* [name, file].  The additions are a function from the titles that have   *)
(* additions to their lists of tracks.                                     *)
(***************************************************************************)

AudioSlash == <<"a", "u", "d", "i", "o", "/">>

\* title_to_spot = {s.get("title", ""): s for s in spots}: the keys.
Titles(spots) == {spots[i].title : i \in DOMAIN spots}

\* title_to_spot[title]: of the records with that title the last one wins.
SpotIndex(spots, title) ==
    CHOOSE i \in DOMAIN spots :
        /\ spots[i].title = title
        /\ \A j \in DOMAIN spots : j > i => spots[j].title # title

\* spot.get("playlist") or []
PlaylistOf(spot) ==
    IF spot.playlist.kind = "list" THEN spot.playlist.tracks ELSE <<>>

\* The test of the playlist left out: a planner with it adds a file again,
\* which C4 excludes.
HasFileNever(playlist, rel) == FALSE

\* any(t.get("file") == rel for t in playlist)
HasFile(playlist, rel) == \E i \in DOMAIN playlist : playlist[i].file = rel

build_track_name(speaker, descriptor, romanize_names) ==
    (IF romanize_names THEN NAME_ROMAJI(speaker) ELSE speaker)
    \o <<":">> \o descriptor

\* What both planners do with a parsed file that passed their filters: the
\* outcome is "unmapped", "present" (a track with this file is already in
\* the playlist) or "add" (the track is added to the title).
Classify(spots, parsed, fname, cfg) ==
    LET spot_title == guess_spot_title(parsed.descriptor)
        rel   == AudioSlash \o fname
        track == [name |-> build_track_name(parsed.speaker, parsed.descriptor,
                                            cfg.romanize_names),
                  file |-> rel]
    IN  IF spot_title = None \/ spot_title \notin Titles(spots)
        THEN [kind |-> "unmapped", path |-> fname, title |-> None, track |-> track]
        ELSE IF HasFile(PlaylistOf(spots[SpotIndex(spots, spot_title)]), rel)
        THEN [kind |-> "present", path |-> fname, title |-> spot_title, track |-> track]
        ELSE [kind |-> "add", path |-> fname, title |-> spot_title, track |-> track]

\* The outcome of a "continue" before the classification.
Skip(fname) == [kind |-> "skip", path |-> fname]

\* The body of the loop of plan_spots_additions for the file f;
\* AssignFileFor is the part after the test of the suffix, with the speaker
\* prefix and the parse of the name.
AssignFileFor(spots, f, speaker_prefix, parsed, cfg) ==
    IF speaker_prefix = NoneStr THEN Skip(f)
    ELSE IF speaker_prefix \notin cfg.targets THEN Skip(f)
    ELSE IF parsed = NoneParsed THEN Skip(f)
    ELSE Classify(spots, parsed, f, cfg)

AssignFile(spots, f, cfg) ==
    IF LowerStr(Suffix(f)) # DotMp3 THEN Skip(f)
    ELSE AssignFileFor(spots, f, SpeakerPrefix(nfc(Stem(f))),
                       parse_audio_name(f, cfg.unknown_date, cfg.keep_suzuki_id),
                       cfg)

\* The body of the loop of plan_spots_additions_from_rename_plan from
\* "if not parsed" on, for the parse of the source name of an item and the
\* name fname the item's file is planned under.
AssignParsed(spots, fname, parsed, cfg) ==
    IF parsed = NoneParsed THEN Skip(fname)
    ELSE IF parsed.speaker \notin cfg.targets THEN Skip(fname)
    ELSE Classify(spots, parsed, fname, cfg)

\* The body of that loop with it.src where the code has it.dst: the tracks
\* then name the files as they were before the renames, which C5 excludes.
AssignPlanItemSrc(spots, it, cfg) ==
    AssignParsed(spots, it.src,
                 parse_audio_name(it.src, cfg.unknown_date, cfg.keep_suzuki_id),
                 cfg)

\* The body of the loop of plan_spots_additions_from_rename_plan for the
\* plan item it.
AssignPlanItem(spots, it, cfg) ==
    AssignParsed(spots, it.dst,
                 parse_audio_name(it.src, cfg.unknown_date, cfg.keep_suzuki_id),
                 cfg)

\* The tracks of the outcomes that add to the title, in order.
RECURSIVE TracksFor(_, _)
TracksFor(outcomes, title) ==
    IF outcomes = <<>> THEN <<>>
    ELSE (IF Head(outcomes).kind = "add" /\ Head(outcomes).title = title
          THEN <<Head(outcomes).track>> ELSE <<>>)
         \o TracksFor(Tail(outcomes), title)

\* The files of the unmapped outcomes, in order.
RECURSIVE UnmappedOf(_)
UnmappedOf(outcomes) ==
    IF outcomes = <<>> THEN <<>>
    ELSE (IF Head(outcomes).kind = "unmapped" THEN <<Head(outcomes).path>>
          ELSE <<>>)
         \o UnmappedOf(Tail(outcomes))

\* The result of a planner from the outcomes of its loop, in order: the
\* additions without the empty lists ("# prune empty"), and the unmapped
\* files.
Collect(spots, outcomes) ==
    [additions |-> [t \in {u \in Titles(spots) : TracksFor(outcomes, u) # <<>>}
                      |-> TracksFor(outcomes, t)],
     unmapped  |-> UnmappedOf(outcomes)]

RECURSIVE AssignFiles(_, _, _)
AssignFiles(spots, fs, cfg) ==
    IF fs = <<>> THEN <<>>
    ELSE <<AssignFile(spots, Head(fs), cfg)>> \o AssignFiles(spots, Tail(fs), cfg)

plan_spots_additions(spots, audio_files, cfg) ==
    Collect(spots, AssignFiles(spots, Sorted(audio_files), cfg))

RECURSIVE AssignPlanItems(_, _, _)
AssignPlanItems(spots, plan, cfg) ==
    IF plan = <<>> THEN <<>>
    ELSE <<AssignPlanItem(spots, Head(plan), cfg)>>
         \o AssignPlanItems(spots, Tail(plan), cfg)

plan_spots_additions_from_rename_plan(spots, rename_plan, cfg) ==
    Collect(spots, AssignPlanItems(spots, rename_plan, cfg))

\* The update of one record with the new tracks put first, which C8
\* excludes.
ExtendPlaylistFront(spot, tracks) ==
    LET old == IF spot.playlist.kind \in {"absent", "null"} THEN <<>>
               ELSE spot.playlist.tracks
    IN  [spot EXCEPT !.playlist = [kind |-> "list", tracks |-> tracks \o old]]

\* The update of one record of spots: the playlist is made the empty list
\* when the key is absent or its value is None, and is then extended.
ExtendPlaylist(spot, tracks) ==
    LET old == IF spot.playlist.kind \in {"absent", "null"} THEN <<>>
               ELSE spot.playlist.tracks
    IN  [spot EXCEPT !.playlist = [kind |-> "list", tracks |-> old \o tracks]]

apply_spots_additions(spots, additions) ==
    [i \in DOMAIN spots |->
        IF spots[i].title \in DOMAIN additions
           /\ i = SpotIndex(spots, spots[i].title)
        THEN ExtendPlaylist(spots[i], additions[spots[i].title])
        ELSE spots[i]]

(***************************************************************************)
(* The inputs of the model                                                 *)
(***************************************************************************)

\* The most files in the audio directory when the first run starts.
MaxFiles == 3

\* The most runs of main in one behaviour.
MaxRuns == 2

\* 塚本20251012_121402野球.mp3: grammar B.
FileB1 ==
    << "u585A", "u672C", "2", "0", "2", "5", "1", "0", "1", "2",
       "_", "1", "2", "1", "4", "0", "2", "u91CE", "u7403", ".",
       "m", "p", "3" >>

\* 塚本20251012_121402.野球.mp3: grammar B, the same new name as FileB1.
FileB2 ==
    << "u585A", "u672C", "2", "0", "2", "5", "1", "0", "1", "2",
       "_", "1", "2", "1", "4", "0", "2", ".", "u91CE", "u7403",
       ".", "m", "p", "3" >>

\* 塚本_20251012_121402_野球.mp3: no grammar; it has the new name of FileB1.
FileOccupier ==
    << "u585A", "u672C", "_", "2", "0", "2", "5", "1", "0", "1",
       "2", "_", "1", "2", "1", "4", "0", "2", "_", "u91CE",
       "u7403", ".", "m", "p", "3" >>

\* 鈴木_WAV_0018_001_滝.mp3: grammar A.
FileA ==
    << "u9234", "u6728", "_", "W", "A", "V", "_", "0", "0", "1",
       "8", "_", "0", "0", "1", "_", "u6EDD", ".", "m", "p",
       "3" >>

\* 鈴木2_WAV_0018_001滝.mp3: grammar A, a speaker with a digit.
FileA2 ==
    << "u9234", "u6728", "2", "_", "W", "A", "V", "_", "0", "0",
       "1", "8", "_", "0", "0", "1", "u6EDD", ".", "m", "p",
       "3" >>

\* 塚本20251012_121402野球.mp3.__renametmp__: a left-over temporary of FileB1.
FileTmp ==
    << "u585A", "u672C", "2", "0", "2", "5", "1", "0", "1", "2",
       "_", "1", "2", "1", "4", "0", "2", "u91CE", "u7403", ".",
       "m", "p", "3", ".", "_", "_", "r", "e", "n", "a",
       "m", "e", "t", "m", "p", "_", "_" >>

\* 鈴木1＿WAV＿0001＿001_WAV_0018_001滝.mp3: grammar A, full-width underscores
\* in the speaker.
FileFW ==
    << "u9234", "u6728", "1", "uFF3F", "W", "A", "V", "uFF3F", "0", "0",
       "0", "1", "uFF3F", "0", "0", "1", "_", "W", "A", "V",
       "_", "0", "0", "1", "8", "_", "0", "0", "1", "u6EDD",
       ".", "m", "p", "3" >>

\* --unknown-date UnknownDate, the default.
UnknownDate ==
    << "U", "n", "k", "n", "o", "w", "n", "D", "a", "t",
       "e" >>

\* --unknown-date WAV_0018_001.
WavDate ==
    << "W", "A", "V", "_", "0", "0", "1", "8", "_", "0",
       "0", "1" >>

\* 鈴木
Suzuki ==
    << "u9234", "u6728" >>

\* 塚本
Tsukamoto ==
    << "u585A", "u672C" >>

\* The suffix of a temporary name.
RenameTmp ==
    << ".", "_", "_", "r", "e", "n", "a", "m", "e", "t",
       "m", "p", "_", "_" >>

\* audio/塚本_20251012_121402_野球.mp3
OldFile ==
    << "a", "u", "d", "i", "o", "/", "u585A", "u672C", "_", "2",
       "0", "2", "5", "1", "0", "1", "2", "_", "1", "2",
       "1", "4", "0", "2", "_", "u91CE", "u7403", ".", "m", "p",
       "3" >>

\* 塚本:野球
OldName ==
    << "u585A", "u672C", ":", "u91CE", "u7403" >>

CandidateFiles == {FileB1, FileB2, FileOccupier, FileA, FileA2, FileTmp, FileFW}

EmptyDir == [n \in {} |-> n]

\* The directories the first run may find: a file is named by the name it
\* had then.
InitialDirs ==
    {[n \in S |-> n] : S \in {X \in SUBSET CandidateFiles : Cardinality(X) <= MaxFiles}}

\* --targets has its default, 鈴木,塚本.
Configs ==
    [targets        : {{Suzuki, Tsukamoto}},
     romanize_names : BOOLEAN,
     unknown_date   : {UnknownDate, WavDate},
     keep_suzuki_id : BOOLEAN]

\* The switches of one run.
ArgSets == [no_rename : BOOLEAN, no_assign : BOOLEAN, dry_run : BOOLEAN, yes : BOOLEAN]

\* The switches before a run has read them.
NoArgs == [no_rename |-> FALSE, no_assign |-> FALSE, dry_run |-> FALSE, yes |-> FALSE]

Absent == [kind |-> "absent", tracks |-> <<>>]

Null == [kind |-> "null", tracks |-> <<>>]

List(tracks) == [kind |-> "list", tracks |-> tracks]

OldTrack == [name |-> OldName, file |-> OldFile]

\* The contents of spots.json the first run may find: both titles with no
\* playlist yet, or one title twice, the second record already holding a
\* track for the new name of FileB1, and no record for 水郷の滝.
InitialSpots ==
    { << [title |-> "TamokutekiHiroba", playlist |-> Absent, note |-> "a"],
         [title |-> "SuigouNoTaki", playlist |-> Null, note |-> "b"] >>,
      << [title |-> "TamokutekiHiroba", playlist |-> List(<<>>), note |-> "a"],
         [title |-> "TamokutekiHiroba", playlist |-> List(<<OldTrack>>), note |-> "b"] >> }

EmptyAdditions == [t \in {} |-> <<>>]

(***************************************************************************)
(* main                                                                    *)
(***************************************************************************)

VARIABLES
    audio_dir_exists,   \* the audio directory exists
    files,              \* the audio directory: name -> file
    spots_exists,       \* spots.json exists
    spots,              \* the contents of spots.json
    cfg,                \* the configuration, the same in every run
    runs,               \* the number of the current run
    args,               \* the switches of the current run
    pc,                 \* where the current run is
    rc,                 \* its exit status, -1 while it runs
    rename_plan,        \* main's rename_plan
    additions,          \* main's additions
    unmapped,           \* main's unmapped
    idx,                \* the position of the current loop of _apply_renames
    start_files,        \* history: files when the run started
    start_spots,        \* history: spots when the run started
    lost,               \* history: the files a rename has overwritten
    confirmed,          \* history: the steps the operator confirmed in this run
    applied,            \* history: the run before applied a rename plan
    descriptor,         \* the argument of guess_spot_title
    spot_title          \* its result

vars == <<audio_dir_exists, files, spots_exists, spots, cfg, runs, args, pc, rc,
          rename_plan, additions, unmapped, idx,
          start_files, start_spots, lost, confirmed, applied,
          descriptor, spot_title>>

env == <<audio_dir_exists, spots_exists, cfg, runs, start_files, start_spots,
         descriptor, spot_title>>

\* spot_title before guess_spot_title has returned.
NotGuessed == "NotGuessed"

Init ==
    /\ audio_dir_exists \in BOOLEAN
    /\ files \in (IF audio_dir_exists THEN InitialDirs ELSE {EmptyDir})
    /\ spots_exists \in BOOLEAN
    /\ spots \in (IF spots_exists THEN InitialSpots ELSE {<<>>})
    /\ cfg \in Configs
    /\ runs = 1
    /\ args = NoArgs
    /\ pc = "idle"
    /\ rc = -1
    /\ rename_plan = <<>>
    /\ additions = EmptyAdditions
    /\ unmapped = <<>>
    /\ idx = 1
    /\ start_files = files
    /\ start_spots = spots
    /\ lost = {}
    /\ confirmed = {}
    /\ applied = FALSE
    /\ descriptor = <<>>
    /\ spot_title = NotGuessed

\* files_for_assign: the .mp3 files of the directory.
Mp3Files(dir) == {n \in DOMAIN dir : LowerStr(Suffix(n)) = DotMp3}

\* main, "# 1) Rename": the rename plan of a run.
MainRenamePlan(no_rename) == IF no_rename THEN <<>> ELSE plan_renames(files, cfg)

\* main, "# 2) Assign": the planner main calls for the rename plan.
MainAssignPlan(plan) ==
    IF plan # <<>>
    THEN plan_spots_additions_from_rename_plan(spots, plan, cfg)
    ELSE plan_spots_additions(spots, Mp3Files(files), cfg)

\* The returns before "# Apply rename" without the one of --dry-run: a run
\* with it writes in a preview, which C6 excludes.
PlanExitIgnoringDryRun(no_assign, dry_run) ==
    IF ~audio_dir_exists THEN 2
    ELSE IF ~no_assign /\ ~spots_exists THEN 2
    ELSE -1

\* main, "# 2) Assign": the additions and the unmapped files of a run; both
\* are empty when assignment is off, and when spots.json is missing, where
\* the run ends.
MainAssign(no_assign, plan) ==
    IF no_assign \/ ~spots_exists
    THEN [additions |-> EmptyAdditions, unmapped |-> <<>>]
    ELSE MainAssignPlan(plan)

\* main, the returns before "# Apply rename": the status with which the run
\* ends there, or -1 when it goes on.
PlanExit(no_assign, dry_run) ==
    IF ~audio_dir_exists THEN 2
    ELSE IF ~no_assign /\ ~spots_exists THEN 2
    ELSE IF dry_run THEN 0
    ELSE -1

\* main from its start to "# Apply rename": the switches are read, the two
\* plans are made and printed, and the run ends with status 2 when the
\* audio directory or (with assignment on) spots.json is missing, and with
\* status 0 on --dry-run.  Nothing is written.
Plan ==
    /\ pc = "idle"
    /\ \E no_rename \in BOOLEAN : \E plan \in {MainRenamePlan(no_rename)} :
       \E no_assign \in BOOLEAN : \E r \in {MainAssign(no_assign, plan)} :
       \E dry_run \in BOOLEAN, yes \in BOOLEAN :
          /\ args' = [no_rename |-> no_rename, no_assign |-> no_assign,
                      dry_run |-> dry_run, yes |-> yes]
          /\ IF ~audio_dir_exists
             THEN UNCHANGED <<rename_plan, additions, unmapped>>
             ELSE /\ rename_plan' = plan
                  /\ additions' = r.additions
                  /\ unmapped' = r.unmapped
          /\ IF PlanExit(no_assign, dry_run) = -1
             THEN pc' = "confirm_rename" /\ rc' = rc
             ELSE pc' = "done" /\ rc' = PlanExit(no_assign, dry_run)
    /\ UNCHANGED <<env, files, spots, idx, lost, confirmed, applied>>

\* "return status"
Exit(status) == pc' = "done" /\ rc' = status

\* _confirm: the answers the operator can give.
Answers == IF args.yes THEN {TRUE} ELSE BOOLEAN

\* main, "# Apply rename", to the call of _apply_renames.
ConfirmRename ==
    /\ pc = "confirm_rename"
    /\ IF rename_plan = <<>>
       THEN pc' = "confirm_assign" /\ UNCHANGED <<rc, confirmed>>
       ELSE \E ans \in Answers :
               IF ans
               THEN pc' = "apply_tmp" /\ confirmed' = confirmed \cup {"rename"}
                    /\ rc' = rc
               ELSE Exit(0) /\ UNCHANGED confirmed
    /\ UNCHANGED <<env, files, spots, args, rename_plan, additions, unmapped,
                   idx, lost, applied>>

\* os.rename(a, b) on a directory: b now names the file a named.
Rename(dir, a, b) ==
    [n \in (DOMAIN dir \ {a}) \cup {b} |-> IF n = b THEN dir[a] ELSE dir[n]]

\* The files os.rename(a, b) destroys: the one b named, if any.
Overwritten(dir, a, b) == IF b \in DOMAIN dir /\ b # a THEN {dir[b]} ELSE {}

\* The step to the next item of the plan, or to the next loop.
Advance(next) ==
    IF idx < Len(rename_plan)
    THEN idx' = idx + 1 /\ pc' = pc
    ELSE idx' = 1 /\ pc' = next

\* item.src.with_name(item.src.name + ".__renametmp__")
TmpName(src) == src \o RenameTmp

\* _apply_renames, one turn of the first loop: the temporary name of the
\* item is unlinked if it exists.
ApplyTmp ==
    /\ pc = "apply_tmp"
    /\ LET tmp == TmpName(rename_plan[idx].src)
       IN  files' = [n \in DOMAIN files \ {tmp} |-> files[n]]
    /\ Advance("apply_phase1")
    /\ UNCHANGED <<env, spots, args, rc, rename_plan, additions, unmapped,
                   lost, confirmed, applied>>

\* _apply_renames, one turn of the second loop: src.rename(tmp).  A source
\* that is gone raises FileNotFoundError, which ends the run.
ApplyPhase1 ==
    /\ pc = "apply_phase1"
    /\ LET src == rename_plan[idx].src
           tmp == TmpName(src)
       IN  IF src \notin DOMAIN files
           THEN Exit(1) /\ UNCHANGED <<files, lost, idx>>
           ELSE /\ files' = Rename(files, src, tmp)
                /\ lost' = lost \cup Overwritten(files, src, tmp)
                /\ Advance("apply_phase2")
                /\ rc' = rc
    /\ UNCHANGED <<env, spots, args, rename_plan, additions, unmapped,
                   confirmed, applied>>

\* _apply_renames, one turn of the third loop: tmp.rename(item.dst).
ApplyPhase2 ==
    /\ pc = "apply_phase2"
    /\ LET tmp == TmpName(rename_plan[idx].src)
           dst == rename_plan[idx].dst
       IN  IF tmp \notin DOMAIN files
           THEN Exit(1) /\ UNCHANGED <<files, lost, idx>>
           ELSE /\ files' = Rename(files, tmp, dst)
                /\ lost' = lost \cup Overwritten(files, tmp, dst)
                /\ Advance("confirm_assign")
                /\ rc' = rc
    /\ UNCHANGED <<env, spots, args, rename_plan, additions, unmapped,
                   confirmed, applied>>

\* main, "# Apply spots.json updates": load_spots, apply_spots_additions,
\* save_spots.
ConfirmAssign ==
    /\ pc = "confirm_assign"
    /\ IF args.no_assign \/ DOMAIN additions = {}
       THEN Exit(0) /\ UNCHANGED <<spots, confirmed>>
       ELSE \E ans \in Answers :
               IF ans
               THEN /\ spots' = apply_spots_additions(spots, additions)
                    /\ confirmed' = confirmed \cup {"assign"}
                    /\ Exit(0)
               ELSE Exit(0) /\ UNCHANGED <<spots, confirmed>>
    /\ UNCHANGED <<env, files, args, rename_plan, additions, unmapped,
                   idx, lost, applied>>

\* The program is started again, with the configuration of the run before.
NextRun ==
    /\ pc = "done"
    /\ runs < MaxRuns
    /\ runs' = runs + 1
    /\ pc' = "idle"
    /\ rc' = -1
    /\ rename_plan' = <<>>
    /\ additions' = EmptyAdditions
    /\ unmapped' = <<>>
    /\ idx' = 1
    /\ start_files' = files
    /\ start_spots' = spots
    /\ confirmed' = {}
    /\ args' = NoArgs
    /\ applied' = ("rename" \in confirmed /\ rc = 0)
    /\ UNCHANGED <<audio_dir_exists, spots_exists, cfg, files, spots,
                   lost, descriptor, spot_title>>

Next ==
    \/ Plan
    \/ ConfirmRename
    \/ ApplyTmp
    \/ ApplyPhase1
    \/ ApplyPhase2
    \/ ConfirmAssign
    \/ NextRun

Spec == Init /\ [][Next]_vars

(***************************************************************************)
(* The classifier on its own: guess_spot_title is given a descriptor and   *)
(* returns.                                                                *)
(***************************************************************************)

\* The longest descriptor.
MaxLen == 3

\* 鳥, 水, 車, 滝, と and W.
Alphabet == {"u9CE5", "u6C34", "u8ECA", "u6EDD", "u3068", "W"}

Descriptors == UNION {[1..n -> Alphabet] : n \in 0..MaxLen}

InitClassify ==
    /\ audio_dir_exists = FALSE
    /\ files = EmptyDir
    /\ spots_exists = FALSE
    /\ spots = <<>>
    /\ cfg \in {c \in Configs : ~c.romanize_names /\ c.keep_suzuki_id
                               /\ c.unknown_date = UnknownDate}
    /\ runs = 1
    /\ args = NoArgs
    /\ pc = "idle"
    /\ rc = -1
    /\ rename_plan = <<>>
    /\ additions = EmptyAdditions
    /\ unmapped = <<>>
    /\ idx = 1
    /\ start_files = files
    /\ start_spots = spots
    /\ lost = {}
    /\ confirmed = {}
    /\ applied = FALSE
    /\ descriptor \in Descriptors
    /\ spot_title = NotGuessed

GuessSpotTitle ==
    /\ spot_title = NotGuessed
    /\ spot_title' = guess_spot_title(descriptor)
    /\ UNCHANGED <<audio_dir_exists, files, spots_exists, spots, cfg, runs, args,
                   pc, rc, rename_plan, additions, unmapped, idx, start_files,
                   start_spots, lost, confirmed, applied, descriptor>>

NextClassify == GuessSpotTitle

SpecClassify == InitClassify /\ [][NextClassify]_vars

(***************************************************************************)
(* The properties                                                          *)
(***************************************************************************)

\* The renames of the plan of this run have all been made.
RenamesApplied ==
    /\ "rename" \in confirmed
    /\ pc \in {"confirm_assign", "done"}
    /\ rc # 1

\* C1: no rename of _apply_renames has overwritten a file: the temporary
\* name of a source is free when the source is renamed to it, and the
\* destination is free when the temporary is renamed to it.  Once the plan
\* is applied, every item's file is at the item's destination and the
\* destinations are pairwise different.
C1_CollisionSafety ==
    /\ lost = {}
    /\ pc = "apply_phase1" => TmpName(rename_plan[idx].src) \notin DOMAIN files
    /\ pc = "apply_phase2" => rename_plan[idx].dst \notin DOMAIN files
    /\ RenamesApplied =>
          \A i \in DOMAIN rename_plan :
             /\ rename_plan[i].dst \in DOMAIN files
             /\ files[rename_plan[i].dst] = start_files[rename_plan[i].src]
             /\ \A j \in DOMAIN rename_plan :
                   i # j => rename_plan[i].dst # rename_plan[j].dst

\* Two files with the same computed destination, which is the name of a
\* third file, have been renamed.
C1_Witness ==
    /\ RenamesApplied
    /\ DOMAIN start_files = {FileB1, FileB2, FileOccupier}
    /\ Len(rename_plan) = 2
    /\ PlanEntry(FileB1, cfg) = <<[src |-> FileB1, dst |-> FileOccupier]>>
    /\ PlanEntry(FileB2, cfg) = <<[src |-> FileB2, dst |-> FileOccupier]>>
    /\ DOMAIN files = {FileOccupier, rename_plan[1].dst, rename_plan[2].dst}
    /\ Cardinality(DOMAIN files) = 3

\* C2: in the plan of plan_renames no two items have the same destination,
\* and a destination that is the name of a file of the directory at
\* planning time is the source of an item.
C2_PlanFreeOfCollisions ==
    \A i \in DOMAIN rename_plan :
       /\ \A j \in DOMAIN rename_plan :
             i # j => rename_plan[i].dst # rename_plan[j].dst
       /\ rename_plan[i].dst \in DOMAIN start_files
             => \E k \in DOMAIN rename_plan :
                   rename_plan[k].src = rename_plan[i].dst

\* The computed destination of the one item is the name of the other file
\* of the directory, and the plan gives the item another destination.
C2_Witness ==
    /\ pc = "confirm_rename"
    /\ DOMAIN start_files = {FileB1, FileOccupier}
    /\ PlanEntry(FileB1, cfg) = <<[src |-> FileB1, dst |-> FileOccupier]>>
    /\ Len(rename_plan) = 1
    /\ rename_plan[1].src = FileB1
    /\ rename_plan[1].dst # FileOccupier

\* C3: a file of the directory whose computed destination is its own name
\* is the source of no item of the plan of plan_renames.
C3_NoOpsFiltered ==
    (pc # "idle" /\ audio_dir_exists /\ ~args.no_rename) =>
       \A n \in DOMAIN start_files :
          PlanEntry(n, cfg) = <<[src |-> n, dst |-> n]>>
             => \A i \in DOMAIN rename_plan : rename_plan[i].src # n

\* No playlist has two tracks with the same file.
NoDuplicateFiles(playlist) ==
    \A i, j \in DOMAIN playlist : i # j => playlist[i].file # playlist[j].file

\* C4: no playlist of spots.json ever has two tracks with the same file, and
\* no track of the additions of a run has the file of a track that is in the
\* playlist of its location when the run plans.
C4_AssignmentIdempotent ==
    /\ \A s \in DOMAIN spots : NoDuplicateFiles(PlaylistOf(spots[s]))
    /\ \A t \in DOMAIN additions :
          LET playlist == PlaylistOf(start_spots[SpotIndex(start_spots, t)])
          IN  /\ NoDuplicateFiles(additions[t])
              /\ \A k \in DOMAIN additions[t] : \A l \in DOMAIN playlist :
                    additions[t][k].file # playlist[l].file

\* The second of two runs without renames has planned over the files of the
\* first and has found the file the first run added in the playlist.
C4_Witness ==
    /\ runs = 2 /\ ~applied
    /\ pc = "done" /\ rc = 0
    /\ args.no_rename /\ ~args.no_assign /\ ~args.dry_run
    /\ DOMAIN additions = {}
    /\ \E n \in DOMAIN files :
          /\ n # FileOccupier
          /\ AssignFile(start_spots, n, cfg).kind = "present"

\* C5: with a rename plan, the file of every planned track is "audio/" and
\* the destination of an item of the plan, and the source of none;
\* spots.json is changed only when the renames have been made; and when a
\* run has ended, every track it added names a file of the directory.
C5_AssignmentNamesFinalFiles ==
    /\ rename_plan # <<>> =>
          \A t \in DOMAIN additions : \A k \in DOMAIN additions[t] :
             /\ \E i \in DOMAIN rename_plan :
                   additions[t][k].file = AudioSlash \o rename_plan[i].dst
             /\ \A i \in DOMAIN rename_plan :
                   additions[t][k].file # AudioSlash \o rename_plan[i].src
    /\ (rename_plan # <<>> /\ spots # start_spots) => RenamesApplied
    /\ pc = "done" =>
          \A s \in DOMAIN spots :
             \A k \in (Len(PlaylistOf(start_spots[s])) + 1)
                          .. Len(PlaylistOf(spots[s])) :
                \E n \in DOMAIN files :
                   PlaylistOf(spots[s])[k].file = AudioSlash \o n

\* A run with a rename plan has renamed and has then added tracks.
C5_Witness ==
    /\ pc = "done"
    /\ rename_plan # <<>>
    /\ files # start_files
    /\ spots # start_spots

\* C6: the directory differs from what it was when the run started only if
\* the directory exists, spots.json exists or assignment is off, --dry-run
\* is off and the renames were confirmed; spots.json differs only if both
\* exist, assignment is on, --dry-run is off and the update was confirmed;
\* and a run that ended with status 2 or under --dry-run left both as they
\* were.
C6_NoMutationWithoutPreconditions ==
    /\ files # start_files =>
          /\ audio_dir_exists
          /\ args.no_assign \/ spots_exists
          /\ ~args.dry_run
          /\ "rename" \in confirmed
    /\ spots # start_spots =>
          /\ audio_dir_exists /\ spots_exists
          /\ ~args.no_assign
          /\ ~args.dry_run
          /\ "assign" \in confirmed
    /\ (pc = "done" /\ (rc = 2 \/ args.dry_run)) =>
          files = start_files /\ spots = start_spots

\* A preview with renames and additions planned has ended.
C6_Witness ==
    /\ pc = "done" /\ rc = 0
    /\ args.dry_run
    /\ rename_plan # <<>>
    /\ DOMAIN additions # {}

\* 鳥
Bird == <<"u9CE5">>

\* 水
Water == <<"u6C34">>

\* The row of 鳥 in the table.
BirdRow == CHOOSE i \in DOMAIN KEYWORD_TO_SPOT_TITLE : KEYWORD_TO_SPOT_TITLE[i][1] = Bird

\* d holds a keyword of a row before the one of 鳥.
EarlierKeyword(d) ==
    \E i \in 1..(BirdRow - 1) :
       Contains(LowerStr(nfc(d)), LowerStr(KEYWORD_TO_SPOT_TITLE[i][1]))

\* C7, as stated: for a descriptor with 鳥 and 水 in it, guess_spot_title
\* returns 森1.
C7_BirdBeforeWater ==
    (spot_title # NotGuessed /\ Contains(descriptor, Bird)
       /\ Contains(descriptor, Water))
    => spot_title = "Mori1"

\* C7, amended: for a descriptor with 鳥 and 水 in it and no keyword of a row
\* before the one of 鳥, guess_spot_title returns 森1, wherever the two are.
C7_BirdBeforeWaterUnlessEarlier ==
    (spot_title # NotGuessed /\ Contains(descriptor, Bird)
       /\ Contains(descriptor, Water) /\ ~EarlierKeyword(descriptor))
    => spot_title = "Mori1"

\* 水と鳥, with 水 first, has been classified as 森1.
C7_Witness ==
    /\ descriptor = <<"u6C34", "u3068", "u9CE5">>
    /\ spot_title = "Mori1"

\* C8: when apply_spots_additions has run, the record a title with
\* additions stands for (the last one with that title) has its old
\* playlist, empty if it was absent or null, followed by the additions of
\* the title in their order, and its other fields as they were; every other
\* record is as it was.
C8_ApplyChangesOnlyPlannedPlaylists ==
    (pc = "done" /\ "assign" \in confirmed) =>
       /\ Len(spots) = Len(start_spots)
       /\ \A i \in DOMAIN start_spots :
             IF /\ start_spots[i].title \in DOMAIN additions
                /\ i = SpotIndex(start_spots, start_spots[i].title)
             THEN /\ spots[i].title = start_spots[i].title
                  /\ spots[i].note = start_spots[i].note
                  /\ spots[i].playlist =
                        List(PlaylistOf(start_spots[i])
                             \o additions[start_spots[i].title])
             ELSE spots[i] = start_spots[i]

\* Tracks have been added to a playlist that had a track, and a record
\* without additions is there as well.
C8_Witness ==
    /\ pc = "done" /\ "assign" \in confirmed
    /\ \E i \in DOMAIN spots :
          /\ PlaylistOf(start_spots[i]) # <<>>
          /\ Len(PlaylistOf(spots[i])) > Len(PlaylistOf(start_spots[i]))
    /\ \E i \in DOMAIN spots : start_spots[i].title \notin DOMAIN additions

\* C9: every item of the plan of plan_renames is accounted for by
\* plan_spots_additions_from_rename_plan: a track with its destination is in
\* the additions of exactly one title, or its destination is in unmapped,
\* or a track with its destination is in a playlist already.
C9_EveryPlanItemAccounted ==
    (pc # "idle" /\ rename_plan # <<>> /\ ~args.no_assign /\ spots_exists) =>
       \A i \in DOMAIN rename_plan :
          LET rel == AudioSlash \o rename_plan[i].dst
          IN  \/ Cardinality({t \in DOMAIN additions :
                                \E k \in DOMAIN additions[t] :
                                   additions[t][k].file = rel}) = 1
              \/ \E k \in DOMAIN unmapped : unmapped[k] = rename_plan[i].dst
              \/ \E s \in DOMAIN start_spots :
                    \E k \in DOMAIN PlaylistOf(start_spots[s]) :
                       PlaylistOf(start_spots[s])[k].file = rel

\* C10: when the run before has applied its rename plan, the plan of
\* plan_renames in this run, with the same configuration, is empty.
C10_RenameIdempotent ==
    (applied /\ pc # "idle" /\ ~args.no_rename) => rename_plan = <<>>

=============================================================================
